---------------------------- MODULE Spec2Model ----------------------------
(***************************************************************************)
(* Locomotion core of GameEngine.ts: the per-frame update of the character *)
(* (physics integrator, collision resolver, climb state machine, stuck     *)
(* monitor and recovery) over the building registry.                       *)
(*                                                                         *)
(* Numbers are fixed point.  Lengths and heights are in 1/64 of a world    *)
(* unit, speeds in 1/64 unit per second, times in milliseconds.  Products  *)
(* are rounded to the nearest representable value (Rnd).                   *)
(***************************************************************************)
EXTENDS Integers, Sequences, FiniteSets, TLC

Scale == 64

\* n/d rounded to the nearest integer, halves away from zero
Rnd(n, d) == IF n >= 0 THEN (2 * n + d) \div (2 * d) ELSE -((2 * (-n) + d) \div (2 * d))

Max(a, b) == IF a >= b THEN a ELSE b
Min(a, b) == IF a <= b THEN a ELSE b
Abs(a) == IF a >= 0 THEN a ELSE -a

\* x world units in model units; tenths of a unit for fractional literals
W(x) == x * Scale
Wt(tenths) == Rnd(tenths * Scale, 10)

RECURSIVE SqrtIter(_, _, _)
SqrtIter(n, lo, hi) ==
    IF lo >= hi THEN lo
    ELSE LET mid == (lo + hi + 1) \div 2
         IN IF mid * mid <= n THEN SqrtIter(n, mid, hi) ELSE SqrtIter(n, lo, mid - 1)

\* floor of the square root (Math.sqrt inside Vector3.length / distanceTo)
ISqrt(n) == IF n <= 0 THEN 0 ELSE SqrtIter(n, 0, 46340)

---------------------------------------------------------------------------
(* Structure registry *)

\* frame times the clock hands to animate(), in ms
FrameTimes == {500, 11000}

\* frame times above this make the grounded velocity blend (rate 8 per second) overshoot
StableFrameTime == 1000 \div 8

mapBounds == W(98)
ladderClimbSpeed == W(6)
ladderClimbTimeout == 10000
coyoteTime == 100
jumpBufferTime == 100
maxStuckTime == 2000

\* keydown events followed from the start of a run
MaxPresses == 2

\* timers that the code only ever compares with 0 are not followed below this
TimerFloor == -StableFrameTime

\* rows of buildingPositions in initCity, in the order of the table: x, z, height, climbable
buildingPositions ==
    << [x |->  90, z |->   0, height |-> 35, climbable |-> TRUE],
       [x |-> -60, z |-> -40, height |-> 26, climbable |-> TRUE],
       [x |->  30, z |->  45, height |-> 18, climbable |-> FALSE],
       [x |-> -45, z |->  30, height |-> 19, climbable |-> FALSE],
       [x |-> -42, z |-> -42, height |-> 31, climbable |-> TRUE],
       [x |-> -42, z |->  42, height |-> 20, climbable |-> FALSE],
       [x |-> -25, z |-> -25, height |-> 18, climbable |-> TRUE],
       [x |->  25, z |-> -25, height |-> 16, climbable |-> FALSE],
       [x |->  90, z |-> -40, height |-> 13, climbable |-> TRUE],
       [x |->  40, z |-> -90, height |-> 10, climbable |-> TRUE] >>

NB == Len(buildingPositions)
BIdx == 1 .. NB

\* createBuilding: the mesh sits at (x, height / 2, z); height is the roof level
height(b) == W(buildingPositions[b].height)
climbable(b) == buildingPositions[b].climbable
meshPos(b) == [x |-> W(buildingPositions[b].x),
               y |-> W(buildingPositions[b].height) \div 2,
               z |-> W(buildingPositions[b].z)]

\* createLadder: the ladder group sits at (x + 15.5, 0, z)
ladderPos(b) == [x |-> W(buildingPositions[b].x) + Wt(155), y |-> 0,
                 z |-> W(buildingPositions[b].z)]
hasLadder(b) == climbable(b)

\* Vector3.distanceTo, squared
Dist2(p, q) == (p.x - q.x) * (p.x - q.x) + (p.y - q.y) * (p.y - q.y)
               + (p.z - q.z) * (p.z - q.z)
Sq(d) == d * d

\* horizontal distance, squared (what the design calls the footprint distance)
HDist2(p, q) == (p.x - q.x) * (p.x - q.x) + (p.z - q.z) * (p.z - q.z)

---------------------------------------------------------------------------
(* State *)

VARIABLES
    position,                \* playerGroup.position
    playerVelocity,
    playerOnGround,
    isOnBuilding,
    currentBuildingHeight,
    buildingExitTimer,
    nearLadder,
    currentLadder,           \* registry index of the building owning the ladder, 0 for null
    isClimbingLadder,
    ladderClimbTarget,
    timeClimbing,            \* clock.getElapsedTime() - ladderClimbStartTime while climbing
    stuckTimer,
    postClimbingGracePeriod,
    lastPlayerPosition,
    coyoteTimeCounter,
    jumpBufferCounter,
    isMoving,
    keys,                    \* the keys the last frame found held
    delta,                   \* the frame time of the last frame
    climbed,                 \* history: building whose ladder the last climb started at
    presses,                 \* history: number of keydown events delivered
    ev                       \* history: what the last frame did

vars == << position, playerVelocity, playerOnGround, isOnBuilding, currentBuildingHeight,
           buildingExitTimer, nearLadder, currentLadder, isClimbingLadder, ladderClimbTarget,
           timeClimbing, stuckTimer, postClimbingGracePeriod, lastPlayerPosition,
           coyoteTimeCounter, jumpBufferCounter, isMoving, keys, delta, climbed, presses, ev >>

Vec(x, y, z) == [x |-> x, y |-> y, z |-> z]
Zero3 == Vec(0, 0, 0)

\* the character's fields as one record
Here == [position |-> position, playerVelocity |-> playerVelocity,
         playerOnGround |-> playerOnGround, isOnBuilding |-> isOnBuilding,
         currentBuildingHeight |-> currentBuildingHeight,
         buildingExitTimer |-> buildingExitTimer, nearLadder |-> nearLadder,
         currentLadder |-> currentLadder, isClimbingLadder |-> isClimbingLadder,
         ladderClimbTarget |-> ladderClimbTarget, timeClimbing |-> timeClimbing,
         stuckTimer |-> stuckTimer, postClimbingGracePeriod |-> postClimbingGracePeriod,
         lastPlayerPosition |-> lastPlayerPosition, coyoteTimeCounter |-> coyoteTimeCounter,
         jumpBufferCounter |-> jumpBufferCounter, isMoving |-> isMoving]

\* the record threaded through the calls of a frame, with the history fields
Cur == Here @@ [climbed |-> climbed, ev |-> {}]

\* a countdown that is only compared with 0: values under the floor are not told apart
Dec(t, dt) == Max(t - dt, TimerFloor)

---------------------------------------------------------------------------
(* Climb state machine *)

\* the building nearest to p, the first in registry order on ties, measured to its ladder
\* (ladder owners only) or to its mesh.  Returns <<index, squared distance>>, index 0 if none.
RECURSIVE NearestFrom(_, _, _, _, _)
NearestFrom(p, i, best, bestD2, useLadder) ==
    IF i > NB THEN << best, bestD2 >>
    ELSE IF useLadder /\ ~hasLadder(i) THEN NearestFrom(p, i + 1, best, bestD2, useLadder)
    ELSE LET d2 == Dist2(p, IF useLadder THEN ladderPos(i) ELSE meshPos(i))
         IN IF best = 0 \/ d2 < bestD2
            THEN NearestFrom(p, i + 1, i, d2, useLadder)
            ELSE NearestFrom(p, i + 1, best, bestD2, useLadder)

NearestLadder(p) == NearestFrom(p, 1, 0, 0, TRUE)
NearestMesh(p) == NearestFrom(p, 1, 0, 0, FALSE)

\* startClimbing without its reset of the velocity
startClimbingKeepingVelocity(s, b) ==
    [s EXCEPT !.isClimbingLadder = TRUE,
              !.ladderClimbTarget = height(b) + Wt(15),
              !.timeClimbing = 0,
              !.playerOnGround = FALSE,
              !.isOnBuilding = FALSE,
              !.currentBuildingHeight = 0,
              !.position = Vec(ladderPos(b).x, Max(s.position.y, W(1)), ladderPos(b).z),
              !.climbed = b,
              !.ev = @ \cup {"start"}]

\* startClimbing taking its target from the structure nearest to the character
startClimbingTowardsNearest(s, b) ==
    [s EXCEPT !.isClimbingLadder = TRUE,
              !.ladderClimbTarget = height(NearestMesh(ladderPos(b))[1]) + Wt(15),
              !.timeClimbing = 0,
              !.playerOnGround = FALSE,
              !.playerVelocity = Zero3,
              !.isOnBuilding = FALSE,
              !.currentBuildingHeight = 0,
              !.position = Vec(ladderPos(b).x, Max(s.position.y, W(1)), ladderPos(b).z),
              !.climbed = b,
              !.ev = @ \cup {"start"}]

\* startClimbing with a target well above the roof
startClimbingAboveRoof(s, b) ==
    [s EXCEPT !.isClimbingLadder = TRUE,
              !.ladderClimbTarget = height(b) + W(5),
              !.timeClimbing = 0,
              !.playerOnGround = FALSE,
              !.playerVelocity = Zero3,
              !.isOnBuilding = FALSE,
              !.currentBuildingHeight = 0,
              !.position = Vec(ladderPos(b).x, Max(s.position.y, W(1)), ladderPos(b).z),
              !.climbed = b,
              !.ev = @ \cup {"start"}]

startClimbing(s, b) ==
    [s EXCEPT !.isClimbingLadder = TRUE,
              !.ladderClimbTarget = height(b) + Wt(15),
              !.timeClimbing = 0,
              !.playerOnGround = FALSE,
              !.playerVelocity = Zero3,
              !.isOnBuilding = FALSE,
              !.currentBuildingHeight = 0,
              !.position = Vec(ladderPos(b).x, Max(s.position.y, W(1)), ladderPos(b).z),
              !.climbed = b,
              !.ev = @ \cup {"start"}]

\* stopClimbing leaving the session flag set
stopClimbingKeepingSession(s) ==
    IF ~s.isClimbingLadder THEN s
    ELSE [s EXCEPT !.playerOnGround = FALSE,
                   !.playerVelocity = Zero3,
                   !.ev = @ \cup {"abort"}]

\* stopClimbing putting the character down on the ground
stopClimbingOntoGround(s) ==
    IF ~s.isClimbingLadder THEN s
    ELSE [s EXCEPT !.isClimbingLadder = FALSE,
                   !.playerOnGround = FALSE,
                   !.playerVelocity = Zero3,
                   !.position.y = W(1),
                   !.ev = @ \cup {"abort"}]

stopClimbing(s) ==
    IF ~s.isClimbingLadder THEN s
    ELSE [s EXCEPT !.isClimbingLadder = FALSE,
                   !.playerOnGround = FALSE,
                   !.playerVelocity = Zero3,
                   !.ev = @ \cup {"abort"}]

\* the offsets finishClimbing can draw: (cos a, 0, sin a) * 1.8 for a random angle a
ClimbOffsets == { Vec(Wt(18), 0, 0), Vec(W(1), 0, Wt(15)) }

\* third tier of the search: the first building whose height is within 1 of the target
RECURSIVE ByTargetHeight(_, _)
ByTargetHeight(target, i) ==
    IF i > NB THEN 0
    ELSE IF Abs(height(i) - target) < W(1) THEN i
    ELSE ByTargetHeight(target, i + 1)

\* the reset of the climb state that opens finishClimbing
resetClimbState(s) ==
    [s EXCEPT !.isClimbingLadder = FALSE, !.ladderClimbTarget = 0,
              !.currentLadder = 0, !.nearLadder = FALSE]

\* the fallback by target height of finishClimbing, on the state s1 the reset has left and
\* the building the searches by ladder and by mesh have found (0 for none)
heightFallback(s1, found) ==
    IF found = 0 /\ s1.ladderClimbTarget > 0
    THEN ByTargetHeight(s1.ladderClimbTarget, 1) ELSE 0

\* The adjustment away from rooftop structures is left out: they stand 30 units from the
\* centre in x and z, the character is placed 1.8 units from it, and the adjustment
\* needs a distance under 2.
finishClimbing(s, off) ==
    LET s1 == resetClimbState(s)
        byLadder == NearestLadder(s1.position)
        byMesh == IF byLadder[1] = 0 THEN NearestMesh(s1.position) ELSE byLadder
        byHeight == heightFallback(s1, byMesh[1])
        targetBuilding == IF byHeight # 0 THEN byHeight ELSE byMesh[1]
        minDist2 == IF byHeight # 0 THEN Dist2(s1.position, meshPos(byHeight)) ELSE byMesh[2]
        placed == targetBuilding # 0 /\ minDist2 < Sq(W(25))
        s2 == IF placed
              THEN [s1 EXCEPT !.isOnBuilding = TRUE,
                              !.currentBuildingHeight = height(targetBuilding),
                              !.position = Vec(meshPos(targetBuilding).x + off.x,
                                               height(targetBuilding) + Wt(15),
                                               meshPos(targetBuilding).z + off.z),
                              !.isMoving = FALSE]
              ELSE [s1 EXCEPT !.isOnBuilding = FALSE,
                              !.currentBuildingHeight = 0,
                              !.position = Vec(s1.position.x, W(1), s1.position.z)]
    IN [s2 EXCEPT !.playerOnGround = TRUE,
                  !.playerVelocity = Zero3,
                  !.postClimbingGracePeriod = 5000,
                  !.stuckTimer = 0,
                  !.buildingExitTimer = 2000,
                  !.ev = @ \cup {"finish"}]

\* emergencyUnstuck leaving the session flag set
emergencyUnstuckKeepingSession(s, lp) ==
    LET p1 == Vec(lp.x + W(2), s.position.y, lp.z)
        near == NearestMesh(p1)
        closestBuilding == near[1]
        onRoof == closestBuilding # 0 /\ (p1.y > W(5) \/ near[2] < Sq(W(8)))
        s1 == IF onRoof
              THEN [s EXCEPT !.isOnBuilding = TRUE,
                             !.currentBuildingHeight = height(closestBuilding),
                             !.position = Vec(p1.x, height(closestBuilding) + Wt(15), p1.z)]
              ELSE [s EXCEPT !.isOnBuilding = FALSE,
                             !.currentBuildingHeight = 0,
                             !.position = Vec(p1.x, W(1), p1.z)]
    IN [s1 EXCEPT !.nearLadder = FALSE,
                  !.currentLadder = 0,
                  !.playerOnGround = TRUE,
                  !.playerVelocity = Zero3,
                  !.ev = @ \cup {"emergency"}]

emergencyUnstuck(s, lp) ==
    LET p1 == Vec(lp.x + W(2), s.position.y, lp.z)
        near == NearestMesh(p1)
        closestBuilding == near[1]
        onRoof == closestBuilding # 0 /\ (p1.y > W(5) \/ near[2] < Sq(W(8)))
        s1 == IF onRoof
              THEN [s EXCEPT !.isOnBuilding = TRUE,
                             !.currentBuildingHeight = height(closestBuilding),
                             !.position = Vec(p1.x, height(closestBuilding) + Wt(15), p1.z)]
              ELSE [s EXCEPT !.isOnBuilding = FALSE,
                             !.currentBuildingHeight = 0,
                             !.position = Vec(p1.x, W(1), p1.z)]
    IN [s1 EXCEPT !.isClimbingLadder = FALSE,
                  !.nearLadder = FALSE,
                  !.currentLadder = 0,
                  !.playerOnGround = TRUE,
                  !.playerVelocity = Zero3,
                  !.ev = @ \cup {"emergency"}]

\* continueClimbing letting gravity act on the velocity instead of pinning it
continueClimbingUnderGravity(s, dt, off) ==
    IF ~s.isClimbingLadder \/ s.ladderClimbTarget <= 0 THEN stopClimbing(s)
    ELSE IF s.timeClimbing > ladderClimbTimeout
         THEN emergencyUnstuck([s EXCEPT !.ev = @ \cup {"timeout"}], ladderPos(s.currentLadder))
    ELSE LET newHeight == s.position.y + Rnd(ladderClimbSpeed * dt, 1000)
             s1 == [s EXCEPT !.position = Vec(ladderPos(s.currentLadder).x, newHeight,
                                              ladderPos(s.currentLadder).z),
                             !.playerVelocity.y = @ - Rnd(W(25) * dt, 1000),
                             !.ev = @ \cup {"climb"}]
         IN IF newHeight >= s.ladderClimbTarget THEN finishClimbing(s1, off) ELSE s1

continueClimbing(s, dt, off) ==
    IF ~s.isClimbingLadder \/ s.ladderClimbTarget <= 0 THEN stopClimbing(s)
    ELSE IF s.timeClimbing > ladderClimbTimeout
         THEN emergencyUnstuck([s EXCEPT !.ev = @ \cup {"timeout"}], ladderPos(s.currentLadder))
    ELSE LET newHeight == s.position.y + Rnd(ladderClimbSpeed * dt, 1000)
             s1 == [s EXCEPT !.position = Vec(ladderPos(s.currentLadder).x, newHeight,
                                              ladderPos(s.currentLadder).z),
                             !.playerVelocity = Zero3,
                             !.ev = @ \cup {"climb"}]
         IN IF newHeight >= s.ladderClimbTarget THEN finishClimbing(s1, off) ELSE s1

\* checkForStuckClimbing
checkForStuckClimbing(s) ==
    IF s.isClimbingLadder /\ s.currentLadder # 0 /\ s.position.y < s.currentBuildingHeight
    THEN emergencyUnstuck(s, ladderPos(s.currentLadder))
    ELSE s

---------------------------------------------------------------------------
(* Collision resolver *)

checkClimbing(s, b, k) ==
    IF ~climbable(b) \/ ~hasLadder(b) THEN s
    ELSE LET near == Dist2(s.position, ladderPos(b)) < Sq(W(12))
             playerHeight == s.position.y
             s1 == IF near /\ ~s.nearLadder
                   THEN [s EXCEPT !.nearLadder = TRUE, !.currentLadder = b]
                   ELSE IF ~near /\ s.nearLadder /\ s.currentLadder = b
                   THEN stopClimbing([s EXCEPT !.nearLadder = FALSE, !.currentLadder = 0])
                   ELSE s
             s2 == IF s1.nearLadder /\ s1.currentLadder = b /\ "jump" \in k
                      /\ ~s1.isClimbingLadder /\ playerHeight < height(b) + W(5)
                   THEN startClimbing(s1, b)
                   ELSE s1
         IN IF s2.nearLadder /\ s2.currentLadder = b /\ s2.isClimbingLadder /\ "jump" \notin k
            THEN stopClimbing(s2)
            ELSE s2

\* one pass of the forEach body of checkBuildingCollisions; c = <<state, landedOnBuilding>>
collideBuilding(c, b, k) ==
    LET s == c[1]
        landed == c[2]
        distance2 == Dist2(s.position, meshPos(b))
        playerHeight == s.position.y
        buildingTop == height(b)
        landingHeight == buildingTop + Wt(15)
        isNearBuilding == distance2 < Sq(W(3))
        isAboveBuilding == playerHeight > buildingTop - W(1) /\ playerHeight < buildingTop + W(5)
        isOn == isNearBuilding /\ isAboveBuilding /\ s.playerVelocity.y <= 0
    IN IF s.isOnBuilding /\ s.currentBuildingHeight = buildingTop /\ distance2 < Sq(W(5))
       THEN IF s.playerVelocity.y <= 0 /\ playerHeight < buildingTop + Wt(5)
            THEN << [s EXCEPT !.position.y = landingHeight, !.playerVelocity.y = 0,
                              !.playerOnGround = TRUE, !.ev = @ \cup {"keep"}], TRUE >>
            ELSE << [s EXCEPT !.playerOnGround = (s.playerVelocity.y <= 0),
                              !.ev = @ \cup {"keep"}], TRUE >>
       ELSE LET s1 == IF ~s.isOnBuilding /\ isOn /\ s.buildingExitTimer <= 0
                      THEN [s EXCEPT !.position.y = landingHeight, !.playerVelocity.y = 0,
                                     !.playerOnGround = TRUE, !.isOnBuilding = TRUE,
                                     !.currentBuildingHeight = buildingTop,
                                     !.ev = @ \cup {"land"}]
                      ELSE s
                landed1 == landed \/ (~s.isOnBuilding /\ isOn /\ s.buildingExitTimer <= 0)
            IN IF ~landed1 /\ ~s1.isOnBuilding /\ ~s1.isClimbingLadder
               THEN << checkClimbing(s1, b, k), landed1 >>
               ELSE << s1, landed1 >>

RECURSIVE collideAll(_, _, _)
collideAll(c, b, k) == IF b > NB THEN c ELSE collideAll(collideBuilding(c, b, k), b + 1, k)

\* jumpToBuilding without its detection range
jumpToBuildingAtAnyDistance(s, b) ==
    LET d == Vec(meshPos(b).x - s.position.x, meshPos(b).y - s.position.y,
                 meshPos(b).z - s.position.z)
        distance2 == Dist2(s.position, meshPos(b))
        playerHeight == s.position.y
        buildingTop == height(b)
        heightRangeForJump == IF s.isOnBuilding THEN W(6) ELSE W(4)
        v == s.playerVelocity
        \* jumpDirection . playerToBuilding > 0.1, both normalized
        toward == 10 * (v.x * d.x + v.z * d.z)
                  > ISqrt(v.x * v.x + v.z * v.z) * ISqrt(distance2)
    IN IF playerHeight > buildingTop - heightRangeForJump
          /\ playerHeight < buildingTop + heightRangeForJump + W(2)
          /\ (v.x # 0 \/ v.z # 0) /\ toward
       THEN [s EXCEPT !.position.y = buildingTop + Wt(15), !.playerVelocity.y = 0,
                      !.playerOnGround = TRUE, !.isOnBuilding = TRUE,
                      !.currentBuildingHeight = buildingTop,
                      !.ev = @ \cup {"jumpland"}
                               \cup (IF @ \cap {"land", "jumpland"} # {}
                                     THEN {"second"} ELSE {})]
       ELSE s

\* one pass of the forEach body of checkBuildingToBuildingJumping; the history records
\* a landing that follows another landing of the same frame as "second"
jumpToBuilding(s, b) ==
    LET d == Vec(meshPos(b).x - s.position.x, meshPos(b).y - s.position.y,
                 meshPos(b).z - s.position.z)
        distance2 == Dist2(s.position, meshPos(b))
        playerHeight == s.position.y
        buildingTop == height(b)
        heightRangeForJump == IF s.isOnBuilding THEN W(6) ELSE W(4)
        v == s.playerVelocity
        \* jumpDirection . playerToBuilding > 0.1, both normalized
        toward == 10 * (v.x * d.x + v.z * d.z)
                  > ISqrt(v.x * v.x + v.z * v.z) * ISqrt(distance2)
    IN IF distance2 < Sq(W(10)) /\ playerHeight > buildingTop - heightRangeForJump
          /\ playerHeight < buildingTop + heightRangeForJump + W(2)
          /\ (v.x # 0 \/ v.z # 0) /\ toward
       THEN [s EXCEPT !.position.y = buildingTop + Wt(15), !.playerVelocity.y = 0,
                      !.playerOnGround = TRUE, !.isOnBuilding = TRUE,
                      !.currentBuildingHeight = buildingTop,
                      !.ev = @ \cup {"jumpland"}
                               \cup (IF @ \cap {"land", "jumpland"} # {}
                                     THEN {"second"} ELSE {})]
       ELSE s

RECURSIVE jumpAll(_, _)
jumpAll(s, b) == IF b > NB THEN s ELSE jumpAll(jumpToBuilding(s, b), b + 1)

checkBuildingToBuildingJumping(s) ==
    IF (s.playerOnGround /\ ~s.isOnBuilding)
       \/ (s.playerVelocity.x = 0 /\ s.playerVelocity.z = 0)
    THEN s
    ELSE jumpAll(s, 1)

\* buildings.find(b => b.height === h): the first in registry order, 0 if none
RECURSIVE findByHeight(_, _)
findByHeight(h, i) ==
    IF i > NB THEN 0 ELSE IF height(i) = h THEN i ELSE findByHeight(h, i + 1)

\* the exit detection releasing the attachment without clearing its height
exitDetectionKeepingHeight(s1, landedOnBuilding) ==
    LET currentBuilding == findByHeight(s1.currentBuildingHeight, 1)
        hasLeftBuilding ==
            \/ Dist2(s1.position, meshPos(currentBuilding)) > Sq(W(4))
            \/ s1.position.y < height(currentBuilding) - W(5)
            \/ s1.position.y > height(currentBuilding) + W(15)
        s2 == IF s1.isOnBuilding /\ ~landedOnBuilding /\ currentBuilding # 0
                 /\ hasLeftBuilding /\ s1.buildingExitTimer <= 0
                 /\ s1.postClimbingGracePeriod <= 0
              THEN [s1 EXCEPT !.isOnBuilding = FALSE,
                              !.buildingExitTimer = 500, !.ev = @ \cup {"left"}]
              ELSE s1
    IN IF ~landedOnBuilding /\ s2.position.y < Wt(5) /\ s2.postClimbingGracePeriod <= 0
       THEN [s2 EXCEPT !.isOnBuilding = FALSE, !.currentBuildingHeight = 0]
       ELSE s2

\* the exit detection and the ground-level reset that end checkBuildingCollisions, on the
\* state s1 and the landedOnBuilding flag the passes over the buildings have left
exitDetection(s1, landedOnBuilding) ==
    LET currentBuilding == findByHeight(s1.currentBuildingHeight, 1)
        hasLeftBuilding ==
            \/ Dist2(s1.position, meshPos(currentBuilding)) > Sq(W(4))
            \/ s1.position.y < height(currentBuilding) - W(5)
            \/ s1.position.y > height(currentBuilding) + W(15)
        s2 == IF s1.isOnBuilding /\ ~landedOnBuilding /\ currentBuilding # 0
                 /\ hasLeftBuilding /\ s1.buildingExitTimer <= 0
                 /\ s1.postClimbingGracePeriod <= 0
              THEN [s1 EXCEPT !.isOnBuilding = FALSE, !.currentBuildingHeight = 0,
                              !.buildingExitTimer = 500, !.ev = @ \cup {"left"}]
              ELSE s1
    IN IF ~landedOnBuilding /\ s2.position.y < Wt(5) /\ s2.postClimbingGracePeriod <= 0
       THEN [s2 EXCEPT !.isOnBuilding = FALSE, !.currentBuildingHeight = 0]
       ELSE s2

\* checkBuildingCollisions from the end of its forEach; c = <<state, landedOnBuilding>>
afterForEach(c) == exitDetection(checkBuildingToBuildingJumping(c[1]), c[2])

checkBuildingCollisions(s, k, dt) ==
    IF s.isClimbingLadder THEN s
    ELSE afterForEach(
             collideAll(<< [s EXCEPT !.postClimbingGracePeriod = IF @ > 0 THEN Dec(@, dt) ELSE @,
                                     !.buildingExitTimer = IF @ > 0 THEN Dec(@, dt) ELSE @],
                           FALSE >>, 1, k))

checkGroundCollision(s) ==
    IF s.isOnBuilding \/ s.isClimbingLadder THEN s
    ELSE IF s.position.y <= W(1) /\ s.playerVelocity.y <= 0
    THEN [s EXCEPT !.position.y = W(1), !.playerVelocity.y = 0, !.playerOnGround = TRUE,
                   !.isOnBuilding = FALSE, !.currentBuildingHeight = 0]
    ELSE s

\* the boundary clamp without its lower bound
ClampFromAbove(x) == Min(mapBounds, x)

Clamp(x) == Max(-mapBounds, Min(mapBounds, x))

\* the ground check and the boundary clamp of handleCollisions, on the state s1 that
\* checkBuildingCollisions has left
groundAndBounds(s1) ==
    LET s2 == IF ~s1.isOnBuilding /\ s1.position.y <= Wt(15)
              THEN checkGroundCollision(s1) ELSE s1
    IN [s2 EXCEPT !.position.x = Clamp(@), !.position.z = Clamp(@)]

handleCollisions(s, k, dt) ==
    IF s.isClimbingLadder THEN s
    ELSE groundAndBounds(checkBuildingCollisions(s, k, dt))

\* preventStuckPosition without the reset of a character under the ground
preventStuckInBuildingOnly(s) ==
    IF s.isOnBuilding /\ s.position.y < s.currentBuildingHeight
    THEN [s EXCEPT !.position.y = s.currentBuildingHeight + W(1), !.playerVelocity.y = 0]
    ELSE s

preventStuckPosition(s) ==
    LET s1 == IF s.position.y < 0
              THEN [s EXCEPT !.position.y = W(1), !.playerVelocity.y = 0,
                             !.playerOnGround = TRUE, !.isOnBuilding = FALSE,
                             !.currentBuildingHeight = 0]
              ELSE s
    IN IF s1.isOnBuilding /\ s1.position.y < s1.currentBuildingHeight
       THEN [s1 EXCEPT !.position.y = s1.currentBuildingHeight + W(1), !.playerVelocity.y = 0]
       ELSE s1

---------------------------------------------------------------------------
(* Physics integrator *)

\* one component of the diagonal-normalized move intent, in 1/10000
Normalized(m, other) == IF m = 0 THEN 0 ELSE IF other = 0 THEN m * 10000 ELSE m * 7071

\* integrate without the clamp of the fall speed
integrateWithoutTerminalVelocity(s, k, dt) ==
    LET moveX == (IF "right" \in k THEN 1 ELSE 0) - (IF "left" \in k THEN 1 ELSE 0)
        moveZ == (IF "up" \in k THEN 1 ELSE 0) - (IF "down" \in k THEN 1 ELSE 0)
        moving == moveX # 0 \/ moveZ # 0
        attached == s.isOnBuilding /\ s.currentBuildingHeight > 0
        currentSpeed == IF s.isMoving THEN W(12) ELSE W(8)
        targetVelocityX == Rnd(Normalized(moveX, moveZ) * currentSpeed, 10000)
        targetVelocityZ == -Rnd(Normalized(moveZ, moveX) * currentSpeed, 10000)
        pinned == attached /\ s.playerVelocity.y <= 0
                  /\ s.position.y < s.currentBuildingHeight + Wt(5)
        y0 == IF pinned THEN s.currentBuildingHeight + Wt(15) ELSE s.position.y
        vy0 == IF pinned THEN 0 ELSE s.playerVelocity.y
        onGround0 == attached \/ s.playerOnGround
        blend(v, target) ==
            IF onGround0
            THEN LET v1 == v + Rnd((target - v) * 8 * dt, 1000)
                 IN IF moving THEN v1 ELSE Rnd(v1 * 85, 100)
            ELSE v + Rnd(target * 3 * dt, 10000)
        vx == blend(s.playerVelocity.x, targetVelocityX)
        vz == blend(s.playerVelocity.z, targetVelocityZ)
        jumpBuffer0 == IF "jump" \in k THEN jumpBufferTime ELSE s.jumpBufferCounter
        jumps == jumpBuffer0 > 0 /\ (onGround0 \/ s.coyoteTimeCounter > 0)
        vy1 == IF jumps THEN W(12) ELSE vy0
        onGround1 == IF jumps THEN FALSE ELSE onGround0
        vy == vy1 - Rnd(W(25) * dt, 1000)
    IN [s EXCEPT !.playerOnGround = onGround1,
                 !.playerVelocity = Vec(vx, vy, vz),
                 !.isMoving = moving,
                 !.coyoteTimeCounter = IF onGround1 THEN coyoteTime
                                       ELSE Dec(IF jumps THEN 0 ELSE @, dt),
                 !.jumpBufferCounter = Dec(IF jumps THEN 0 ELSE jumpBuffer0, dt),
                 !.position = Vec(s.position.x + Rnd(vx * dt, 1000),
                                  y0 + Rnd(vy * dt, 1000),
                                  s.position.z + Rnd(vz * dt, 1000)),
                 !.ev = @ \cup (IF jumps THEN {"jump"} ELSE {}) \cup {"physics"}]

\* the part of updatePlayerPhysics before handleCollisions; the camera faces -z (cameraRotationY = 0)
integrate(s, k, dt) ==
    LET moveX == (IF "right" \in k THEN 1 ELSE 0) - (IF "left" \in k THEN 1 ELSE 0)
        moveZ == (IF "up" \in k THEN 1 ELSE 0) - (IF "down" \in k THEN 1 ELSE 0)
        moving == moveX # 0 \/ moveZ # 0
        attached == s.isOnBuilding /\ s.currentBuildingHeight > 0
        currentSpeed == IF s.isMoving THEN W(12) ELSE W(8)
        targetVelocityX == Rnd(Normalized(moveX, moveZ) * currentSpeed, 10000)
        targetVelocityZ == -Rnd(Normalized(moveZ, moveX) * currentSpeed, 10000)
        pinned == attached /\ s.playerVelocity.y <= 0
                  /\ s.position.y < s.currentBuildingHeight + Wt(5)
        y0 == IF pinned THEN s.currentBuildingHeight + Wt(15) ELSE s.position.y
        vy0 == IF pinned THEN 0 ELSE s.playerVelocity.y
        onGround0 == attached \/ s.playerOnGround
        blend(v, target) ==
            IF onGround0
            THEN LET v1 == v + Rnd((target - v) * 8 * dt, 1000)
                 IN IF moving THEN v1 ELSE Rnd(v1 * 85, 100)
            ELSE v + Rnd(target * 3 * dt, 10000)
        vx == blend(s.playerVelocity.x, targetVelocityX)
        vz == blend(s.playerVelocity.z, targetVelocityZ)
        jumpBuffer0 == IF "jump" \in k THEN jumpBufferTime ELSE s.jumpBufferCounter
        jumps == jumpBuffer0 > 0 /\ (onGround0 \/ s.coyoteTimeCounter > 0)
        vy1 == IF jumps THEN W(12) ELSE vy0
        onGround1 == IF jumps THEN FALSE ELSE onGround0
        vy == Max(vy1 - Rnd(W(25) * dt, 1000), -W(20))
    IN [s EXCEPT !.playerOnGround = onGround1,
                 !.playerVelocity = Vec(vx, vy, vz),
                 !.isMoving = moving,
                 !.coyoteTimeCounter = IF onGround1 THEN coyoteTime
                                       ELSE Dec(IF jumps THEN 0 ELSE @, dt),
                 !.jumpBufferCounter = Dec(IF jumps THEN 0 ELSE jumpBuffer0, dt),
                 !.position = Vec(s.position.x + Rnd(vx * dt, 1000),
                                  y0 + Rnd(vy * dt, 1000),
                                  s.position.z + Rnd(vz * dt, 1000)),
                 !.ev = @ \cup (IF jumps THEN {"jump"} ELSE {}) \cup {"physics"}]

updatePlayerPhysics(s, k, dt) ==
    IF s.isClimbingLadder THEN s
    ELSE preventStuckPosition(handleCollisions(integrate(s, k, dt), k, dt))

---------------------------------------------------------------------------
(* Stuck monitor and recovery *)

\* Vector3.normalize, as a vector of length 1000 (the zero vector stays zero)
Normalize(d) ==
    LET len == ISqrt(d.x * d.x + d.y * d.y + d.z * d.z)
    IN IF len = 0 THEN Zero3
       ELSE Vec(Rnd(d.x * 1000, len), Rnd(d.y * 1000, len), Rnd(d.z * 1000, len))

Sub(p, q) == Vec(p.x - q.x, p.y - q.y, p.z - q.z)
Add(p, q) == Vec(p.x + q.x, p.y + q.y, p.z + q.z)

\* a point plus a normalized direction times a length
Along(p, n, len) == Vec(p.x + Rnd(n.x * len, 1000), p.y + Rnd(n.y * len, 1000),
                        p.z + Rnd(n.z * len, 1000))

\* playerVelocity.length() < 0.1
Slow(v) == v.x * v.x + v.y * v.y + v.z * v.z <= (Sq(Scale) - 1) \div 100

\* (Math.random() - 0.5) * span for a draw u in 1/1000
Jitter(u, span) == Rnd((u - 500) * span, 1000)

\* the sum of the unit vectors pointing from the buildings within range to p, and their number
RECURSIVE awaySum(_, _, _, _, _)
awaySum(p, range, i, total, count) ==
    IF i > NB THEN << total, count >>
    ELSE IF Dist2(p, meshPos(i)) < Sq(range)
    THEN awaySum(p, range, i + 1, Add(total, Normalize(Sub(p, meshPos(i)))), count + 1)
    ELSE awaySum(p, range, i + 1, total, count)

\* totalDirection.divideScalar(buildingCount).normalize()
MeanDirection(a) == Normalize(Vec(Rnd(a[1].x, a[2]), Rnd(a[1].y, a[2]), Rnd(a[1].z, a[2])))

RECURSIVE nearAnyBuilding(_, _)
nearAnyBuilding(p, i) ==
    IF i > NB THEN FALSE
    ELSE Dist2(p, meshPos(i)) < Sq(W(20)) \/ nearAnyBuilding(p, i + 1)

isPlayerInProblematicPosition(s, p) ==
    LET attached == s.isOnBuilding /\ s.currentBuildingHeight > 0
        offRoof == attached /\ Abs(p.y - (s.currentBuildingHeight + Wt(15))) > W(5)
    IN \/ p.y < 0
       \/ p.y > W(10) /\ ~s.isOnBuilding
       \/ offRoof
       \/ p.y <= W(2) /\ ~nearAnyBuilding(p, 1) /\ Slow(s.playerVelocity)
       \/ Abs(p.x) > mapBounds \/ Abs(p.z) > mapBounds

\* roofSpot landing at the level of the roof, without the landing offset
RECURSIVE roofSpotAtRoofLevel(_, _, _, _)
roofSpotAtRoofLevel(p, rnd, i, spot) ==
    IF i > NB THEN spot
    ELSE IF Dist2(p, meshPos(i)) < Sq(W(10)) /\ p.y > height(i) - W(3) /\ p.y < height(i) + W(5)
    THEN roofSpotAtRoofLevel(p, rnd, i + 1,
                  << Vec(meshPos(i).x + Jitter(rnd.u1, W(3)), height(i),
                         meshPos(i).z + Jitter(rnd.u2, W(3))) >>)
    ELSE roofSpotAtRoofLevel(p, rnd, i + 1, spot)

\* the landing spot autoUnstuck picks: the last building in registry order that qualifies
RECURSIVE roofSpot(_, _, _, _)
roofSpot(p, rnd, i, spot) ==
    IF i > NB THEN spot
    ELSE IF Dist2(p, meshPos(i)) < Sq(W(10)) /\ p.y > height(i) - W(3) /\ p.y < height(i) + W(5)
    THEN roofSpot(p, rnd, i + 1,
                  << Vec(meshPos(i).x + Jitter(rnd.u1, W(3)), height(i) + Wt(15),
                         meshPos(i).z + Jitter(rnd.u2, W(3))) >>)
    ELSE roofSpot(p, rnd, i + 1, spot)

\* autoUnstuck taking the attached building from the position it moves the character from
autoUnstuckAttachingFromOldPosition(s, rnd) ==
    LET currentPos == s.position
        onRoof == roofSpot(currentPos, rnd, 1, << >>)
        away == awaySum(currentPos, W(8), 1, Zero3, 0)
        found == IF onRoof # << >> THEN onRoof[1]
                 ELSE IF currentPos.y <= W(2)
                 THEN IF away[2] > 0
                      THEN [Along(currentPos, MeanDirection(away), W(6)) EXCEPT !.y = W(1)]
                      ELSE Vec(Jitter(rnd.u1, W(20)), W(1), Jitter(rnd.u2, W(20)))
                 ELSE Vec(currentPos.x + Jitter(rnd.u1, W(4)), W(1),
                          currentPos.z + Jitter(rnd.u2, W(4)))
        safePosition == [found EXCEPT !.x = Clamp(@), !.z = Clamp(@)]
        closestBuilding == NearestMesh(currentPos)[1]
    IN [s EXCEPT !.position = safePosition,
                 !.playerVelocity = Zero3,
                 !.playerOnGround = TRUE,
                 !.isOnBuilding = safePosition.y > W(2),
                 !.currentBuildingHeight =
                     IF safePosition.y <= W(2) THEN 0
                     ELSE IF closestBuilding # 0 THEN height(closestBuilding) ELSE @,
                 !.postClimbingGracePeriod = 3000,
                 !.ev = @ \cup {"auto"}]

autoUnstuck(s, rnd) ==
    LET currentPos == s.position
        onRoof == roofSpot(currentPos, rnd, 1, << >>)
        away == awaySum(currentPos, W(8), 1, Zero3, 0)
        found == IF onRoof # << >> THEN onRoof[1]
                 ELSE IF currentPos.y <= W(2)
                 THEN IF away[2] > 0
                      THEN [Along(currentPos, MeanDirection(away), W(6)) EXCEPT !.y = W(1)]
                      ELSE Vec(Jitter(rnd.u1, W(20)), W(1), Jitter(rnd.u2, W(20)))
                 ELSE Vec(currentPos.x + Jitter(rnd.u1, W(4)), W(1),
                          currentPos.z + Jitter(rnd.u2, W(4)))
        safePosition == [found EXCEPT !.x = Clamp(@), !.z = Clamp(@)]
        closestBuilding == NearestMesh(safePosition)[1]
    IN [s EXCEPT !.position = safePosition,
                 !.playerVelocity = Zero3,
                 !.playerOnGround = TRUE,
                 !.isOnBuilding = safePosition.y > W(2),
                 !.currentBuildingHeight =
                     IF safePosition.y <= W(2) THEN 0
                     ELSE IF closestBuilding # 0 THEN height(closestBuilding) ELSE @,
                 !.postClimbingGracePeriod = 3000,
                 !.ev = @ \cup {"auto"}]

\* checkForStuckPlayer without the return during the grace period
checkForStuckPlayerDuringGrace(s, k, dt, rnd) ==
    IF s.isClimbingLadder THEN s
    ELSE IF k \cap {"up", "down", "left", "right", "jump"} # {}
            \/ (s.isOnBuilding /\ s.currentBuildingHeight > 0)
    THEN [s EXCEPT !.stuckTimer = 0, !.lastPlayerPosition = s.position]
    ELSE LET currentPosition == s.position
             still == Dist2(s.lastPlayerPosition, currentPosition) <= (Sq(Scale) - 1) \div 400
             timer == s.stuckTimer + dt
             s1 == IF ~still THEN [s EXCEPT !.stuckTimer = 0]
                   ELSE IF timer <= maxStuckTime THEN [s EXCEPT !.stuckTimer = timer]
                   ELSE IF isPlayerInProblematicPosition(s, currentPosition)
                   THEN [autoUnstuck(s, rnd) EXCEPT !.stuckTimer = 0]
                   ELSE [s EXCEPT !.stuckTimer = 0]
         IN [s1 EXCEPT !.lastPlayerPosition = currentPosition]

checkForStuckPlayer(s, k, dt, rnd) ==
    IF s.isClimbingLadder THEN s
    ELSE IF k \cap {"up", "down", "left", "right", "jump"} # {}
            \/ (s.isOnBuilding /\ s.currentBuildingHeight > 0)
            \/ s.postClimbingGracePeriod > 0
    THEN [s EXCEPT !.stuckTimer = 0, !.lastPlayerPosition = s.position]
    ELSE LET currentPosition == s.position
             still == Dist2(s.lastPlayerPosition, currentPosition) <= (Sq(Scale) - 1) \div 400
             timer == s.stuckTimer + dt
             s1 == IF ~still THEN [s EXCEPT !.stuckTimer = 0]
                   ELSE IF timer <= maxStuckTime THEN [s EXCEPT !.stuckTimer = timer]
                   ELSE IF isPlayerInProblematicPosition(s, currentPosition)
                   THEN [autoUnstuck(s, rnd) EXCEPT !.stuckTimer = 0]
                   ELSE [s EXCEPT !.stuckTimer = 0]
         IN [s1 EXCEPT !.lastPlayerPosition = currentPosition]

\* the forEach at the top of manualUnstuck, for one building
unstickFromBase(s, b) ==
    IF climbable(b) /\ hasLadder(b) /\ Dist2(s.position, ladderPos(b)) < Sq(W(3))
       /\ s.position.y < W(2)
    THEN LET awayDirection == Normalize(Sub(s.position, meshPos(b)))
         IN [s EXCEPT !.position = [Along(meshPos(b), awayDirection, W(5)) EXCEPT !.y = W(1)],
                      !.playerOnGround = TRUE, !.isOnBuilding = FALSE,
                      !.currentBuildingHeight = 0, !.playerVelocity = Zero3,
                      !.ev = @ \cup {"manual"}]
    ELSE s

RECURSIVE unstickAll(_, _)
unstickAll(s, b) == IF b > NB THEN s ELSE unstickAll(unstickFromBase(s, b), b + 1)

\* manualUnstuck once the climbing case is excluded and the forEach has run
manualRelocate(s, rnd) ==
    LET expectedHeight == s.currentBuildingHeight + Wt(15)
        building == findByHeight(s.currentBuildingHeight, 1)
        nearest == NearestMesh(s.position)
        away == awaySum(s.position, W(10), 1, Zero3, 0)
        ground == [s EXCEPT !.position.y = W(1), !.playerOnGround = TRUE,
                            !.playerVelocity = Zero3, !.ev = @ \cup {"manual"}]
        general == IF away[2] > 0
                   THEN [Along(s.position, MeanDirection(away), W(8)) EXCEPT !.y = W(1)]
                   ELSE Vec(Jitter(rnd.u1, W(20)), W(1), Jitter(rnd.u2, W(20)))
    IN IF s.isOnBuilding /\ Abs(s.position.y - expectedHeight) > W(2)
       THEN [s EXCEPT !.position.y = expectedHeight, !.playerVelocity = Zero3,
                      !.ev = @ \cup {"manual"}]
       ELSE IF s.isOnBuilding /\ Slow(s.playerVelocity) /\ s.playerOnGround
       THEN [s EXCEPT !.playerVelocity = Zero3, !.ev = @ \cup {"manual"}]
       ELSE IF s.isOnBuilding
               /\ Dist2(s.position, Vec(0, s.currentBuildingHeight, 0)) > Sq(W(27)) \div 100
               /\ building # 0
       THEN [s EXCEPT !.position =
                          [Along(meshPos(building),
                                 Normalize(Sub(meshPos(building), s.position)), Wt(18))
                           EXCEPT !.y = expectedHeight],
                      !.ev = @ \cup {"manual"}]
       ELSE IF s.position.y > W(10) /\ ~s.isOnBuilding
       THEN IF nearest[1] # 0 /\ nearest[2] < Sq(W(10))
            THEN [s EXCEPT !.isOnBuilding = TRUE,
                           !.currentBuildingHeight = height(nearest[1]),
                           !.position.y = height(nearest[1]) + Wt(15),
                           !.playerVelocity = Zero3, !.ev = @ \cup {"manual"}]
            ELSE [ground EXCEPT !.isOnBuilding = FALSE, !.currentBuildingHeight = 0]
       ELSE IF s.position.y < 0 THEN ground
       ELSE IF ~s.playerOnGround /\ s.position.y > W(5) THEN ground
       ELSE IF s.position.y <= W(2) /\ s.playerOnGround
       THEN [s EXCEPT !.position = [general EXCEPT !.x = Clamp(@), !.z = Clamp(@)],
                      !.playerOnGround = TRUE, !.isOnBuilding = FALSE,
                      !.currentBuildingHeight = 0, !.playerVelocity = Zero3,
                      !.ev = @ \cup {"manual"}]
       ELSE s

manualUnstuck(s, rnd) ==
    IF s.isClimbingLadder /\ s.currentLadder # 0
    THEN emergencyUnstuck([s EXCEPT !.ev = @ \cup {"forced"}], ladderPos(s.currentLadder))
    ELSE manualRelocate(unstickAll(s, 1), rnd)

---------------------------------------------------------------------------
(* The frame loop *)

\* the key states a frame can find
Inputs == { {}, {"jump"}, {"r"}, {"jump", "r"} }

\* the values Math.random() takes, in 1/1000, with the angle finishClimbing derives from it
Randoms == { [off |-> o, u1 |-> u[1], u2 |-> u[2]] :
             o \in ClimbOffsets, u \in { << 500, 500 >> } }

\* where the character stands when the model starts: the spawn point, and points of the
\* ground it walks to from there
StartPositions == { Vec(0, W(1), 0),
                    Vec(-Wt(95), W(1), W(-20)),
                    Vec(-Wt(445), W(1), W(-35)) }

\* handleInput: the R key runs manualUnstuck
handleInput(s, k, rnd) == IF "r" \in k THEN manualUnstuck(s, rnd) ELSE s

\* the part of animate() after handleInput: the climb while one is under way, else the
\* physics and the stuck monitor
updateCharacter(s1, k, dt, rnd) ==
    IF s1.isClimbingLadder
    THEN IF s1.currentLadder = 0 \/ s1.ladderClimbTarget <= 0
         THEN finishClimbing(stopClimbing([s1 EXCEPT !.ev = @ \cup {"invalid"}]), rnd.off)
         ELSE checkForStuckClimbing(IF "jump" \in k
                                    THEN continueClimbing(s1, dt, rnd.off)
                                    ELSE stopClimbing(s1))
    ELSE checkForStuckPlayer(updatePlayerPhysics(s1, k, dt), k, dt, rnd)

\* animate(), for the keys k held, the frame time dt and the random draws rnd
animate(s, k, dt, rnd) ==
    updateCharacter(
        handleInput([s EXCEPT !.timeClimbing = IF s.isClimbingLadder THEN @ + dt ELSE @],
                    k, rnd),
        k, dt, rnd)

Install(s) ==
    /\ position' = s.position
    /\ playerVelocity' = s.playerVelocity
    /\ playerOnGround' = s.playerOnGround
    /\ isOnBuilding' = s.isOnBuilding
    /\ currentBuildingHeight' = s.currentBuildingHeight
    /\ buildingExitTimer' = s.buildingExitTimer
    /\ nearLadder' = s.nearLadder
    /\ currentLadder' = s.currentLadder
    /\ isClimbingLadder' = s.isClimbingLadder
    /\ ladderClimbTarget' = s.ladderClimbTarget
    /\ timeClimbing' = IF s.isClimbingLadder THEN s.timeClimbing ELSE 0
    /\ stuckTimer' = s.stuckTimer
    /\ postClimbingGracePeriod' = s.postClimbingGracePeriod
    /\ lastPlayerPosition' = s.lastPlayerPosition
    /\ coyoteTimeCounter' = s.coyoteTimeCounter
    /\ jumpBufferCounter' = s.jumpBufferCounter
    /\ isMoving' = s.isMoving
    /\ climbed' = s.climbed
    /\ ev' = s.ev

Init ==
    /\ position \in StartPositions
    /\ playerVelocity = Zero3
    /\ playerOnGround = TRUE
    /\ isOnBuilding = FALSE
    /\ currentBuildingHeight = 0
    /\ buildingExitTimer = 0
    /\ nearLadder = FALSE
    /\ currentLadder = 0
    /\ isClimbingLadder = FALSE
    /\ ladderClimbTarget = 0
    /\ timeClimbing = 0
    /\ stuckTimer = 0
    /\ postClimbingGracePeriod = 0
    /\ lastPlayerPosition = Zero3
    /\ coyoteTimeCounter = 0
    /\ jumpBufferCounter = 0
    /\ isMoving = FALSE
    /\ keys = {}
    /\ delta = 0
    /\ climbed = 0
    /\ presses = 0
    /\ ev = {}

\* keydown events a frame with keys k held has received: one for each key that was not
\* held before, and one for R, whose handler runs on every (repeated) keydown
Pressed(k) == Cardinality((k \ keys) \cup (k \cap {"r"}))

\* One call of animate().  A frame longer than StableFrameTime is taken only with no
\* horizontal motion under way, a frame as long as the climb timeout only during a
\* climb, and no more than MaxPresses keydown events are followed.

FrameOf(ins, dts) ==
    \E k \in ins, dt \in dts, rnd \in Randoms :
        /\ dt > StableFrameTime =>
               /\ k \cap {"left", "right", "up", "down"} = {}
               /\ playerVelocity.x = 0 /\ playerVelocity.z = 0
        /\ dt >= ladderClimbTimeout => isClimbingLadder
        /\ presses + Pressed(k) <= MaxPresses
        /\ presses' = presses + Pressed(k)
        /\ Install(animate(Cur, k, dt, rnd))
        /\ keys' = k
        /\ delta' = dt

Frame == FrameOf(Inputs, FrameTimes)

\* restart() without the reset of the building state
RestartKeepingAttachment ==
    /\ position' = Vec(0, W(1), 0)
    /\ playerVelocity' = Zero3
    /\ playerOnGround' = TRUE
    /\ isMoving' = FALSE
    /\ nearLadder' = FALSE
    /\ currentLadder' = 0
    /\ isClimbingLadder' = FALSE
    /\ ladderClimbTarget' = 0
    /\ timeClimbing' = 0
    /\ UNCHANGED << isOnBuilding, currentBuildingHeight >>
    /\ buildingExitTimer' = 0
    /\ coyoteTimeCounter' = 0
    /\ jumpBufferCounter' = 0
    /\ stuckTimer' = 0
    /\ postClimbingGracePeriod' = 0
    /\ lastPlayerPosition' = Vec(0, W(1), 0)
    /\ ev' = {"restart"}
    /\ UNCHANGED << keys, delta, climbed, presses >>

Restart ==
    /\ position' = Vec(0, W(1), 0)
    /\ playerVelocity' = Zero3
    /\ playerOnGround' = TRUE
    /\ isMoving' = FALSE
    /\ nearLadder' = FALSE
    /\ currentLadder' = 0
    /\ isClimbingLadder' = FALSE
    /\ ladderClimbTarget' = 0
    /\ timeClimbing' = 0
    /\ isOnBuilding' = FALSE
    /\ currentBuildingHeight' = 0
    /\ buildingExitTimer' = 0
    /\ coyoteTimeCounter' = 0
    /\ jumpBufferCounter' = 0
    /\ stuckTimer' = 0
    /\ postClimbingGracePeriod' = 0
    /\ lastPlayerPosition' = Vec(0, W(1), 0)
    /\ ev' = {"restart"}
    /\ UNCHANGED << keys, delta, climbed, presses >>

Next == Frame \/ Restart

Spec == Init /\ [][Next]_vars

---------------------------------------------------------------------------
(* Properties of the frame loop *)

\* C1: at the end of every frame in which a climb session is active, the velocity is the
\* zero vector and the character has no attachment; the frame that starts the climb
\* included.
ClimbPinsVelocityWithoutAttachment ==
    isClimbingLadder => playerVelocity = Zero3 /\ ~isOnBuilding

\* a climb started in mid-air, in a frame whose integrator had the character falling
ClimbStartedWhileFalling ==
    isClimbingLadder /\ {"start", "physics"} \subseteq ev /\ position.y > W(1)

\* C2: for every climbable structure, a climb that reaches its target height with the
\* intent held ends in that frame with the character attached to that structure, at its
\* landing height, with onGround set and at rest.
ClimbCompletionLandsOnClimbedStructure ==
    {"climb", "finish"} \subseteq ev =>
        /\ ~isClimbingLadder
        /\ isOnBuilding
        /\ currentBuildingHeight = height(climbed)
        /\ position.y = height(climbed) + Wt(15)
        /\ playerOnGround
        /\ playerVelocity = Zero3

\* C3: every climb session ends.  A frame that finds the intent released ends it; a
\* session is never still active at the end of a frame in which its elapsed time
\* exceeds the ceiling, nor at or above its target height; and its elapsed time grows
\* with every frame, so that no session outlasts the ceiling.
ClimbEndsOnReleaseTimeoutOrTarget ==
    [][ /\ (isClimbingLadder /\ "jump" \notin keys') => ~isClimbingLadder'
        /\ isClimbingLadder' => /\ timeClimbing' <= ladderClimbTimeout
                                /\ position'.y < ladderClimbTarget'
        /\ (isClimbingLadder /\ isClimbingLadder' /\ "start" \notin ev') =>
               timeClimbing' > timeClimbing ]_vars

\* a climb that the timeout has ended
ClimbEndedByTimeout ==
    ~isClimbingLadder /\ "timeout" \in ev /\ "jump" \in keys

\* the frame steps, as opposed to a restart
IsFrame == "restart" \notin ev'

\* what a completion of the climb (normal or forced) is allowed to set
Completes == ev' \cap {"finish", "emergency"} # {}

ReleaseAbortsClimbInPlace ==
    [][ /\ (IsFrame /\ isClimbingLadder /\ keys' = {}) =>
              /\ ~isClimbingLadder'
              /\ position' = position
              /\ playerVelocity' = Zero3
              /\ ~playerOnGround'
        /\ (IsFrame /\ "abort" \in ev /\ keys' = {}) =>
              /\ "physics" \in ev'
              /\ \/ playerVelocity'.y < 0
                 \/ playerOnGround' /\ position'.y = W(1) ]_vars

\* the frame after an abort in mid-air: the character is falling
FallingAfterAbort ==
    /\ {"physics"} = ev /\ keys = {} /\ climbed # 0 /\ ~playerOnGround
    /\ playerVelocity.y < 0 /\ position.y > W(3) /\ HDist2(position, ladderPos(climbed)) = 0

\* C6: during a climb session the target height does not change, and it is the height
\* of the structure whose anchor the character is at, plus the landing offset, whichever
\* structure is nearest.
ClimbTargetFixedByAnchor ==
    [][ isClimbingLadder' =>
          /\ \E b \in BIdx : /\ hasLadder(b)
                             /\ HDist2(position', ladderPos(b)) = 0
                             /\ ladderClimbTarget' = height(b) + Wt(15)
          /\ (isClimbingLadder /\ "start" \notin ev') =>
                 ladderClimbTarget' = ladderClimbTarget ]_vars

\* a climb under way next to a structure nearer than the one being climbed
ClimbingNearerToAnotherStructure ==
    isClimbingLadder /\ "climb" \in ev /\ NearestMesh(position)[1] # climbed

\* C7: a climb that the timeout or the manual trigger force-completes ends in that frame
\* with the character attached to the structure it was climbing, at that structure's
\* landing height, with onGround set and at rest.
ForcedCompletionLandsOnClimbedStructure ==
    ("emergency" \in ev /\ ev \cap {"timeout", "forced"} # {}) =>
        /\ ~isClimbingLadder
        /\ isOnBuilding
        /\ currentBuildingHeight = height(climbed)
        /\ position.y = height(climbed) + Wt(15)
        /\ playerOnGround
        /\ playerVelocity = Zero3

\* C10: at the end of every frame an attachment is to a structure whose footprint the
\* character is horizontally within the detection radius of.
AttachmentWithinDetectionRadius ==
    isOnBuilding =>
        \E b \in BIdx : /\ height(b) = currentBuildingHeight
                        /\ HDist2(position, meshPos(b)) <= Sq(W(5))

---------------------------------------------------------------------------
(* The collision resolver on its own: handleCollisions applied to the states a frame's *)
(* integrator can hand it over a roof.                                                 *)

\* horizontal distances from a structure's centre, heights relative to its roof and
\* vertical velocities the resolver is tried at
RoofOffsets == { 0, W(2), Wt(45), W(6) }
RoofLevels == { -Wt(5), 0, Wt(15), W(4), W(6) }
VerticalSpeeds == { -W(5), 0, W(5) }

InitCollide ==
    \E b \in BIdx, dx \in RoofOffsets, dy \in RoofLevels, vy \in VerticalSpeeds,
       attached \in BOOLEAN, exit \in {0, 500}, grace \in {0, 3000} :
        /\ position = Vec(meshPos(b).x + dx, height(b) + dy, meshPos(b).z)
        /\ playerVelocity = Vec(0, vy, 0)
        /\ playerOnGround = attached
        /\ isOnBuilding = attached
        /\ currentBuildingHeight = IF attached THEN height(b) ELSE 0
        /\ buildingExitTimer = exit
        /\ postClimbingGracePeriod = grace
        /\ nearLadder = FALSE
        /\ currentLadder = 0
        /\ isClimbingLadder = FALSE
        /\ ladderClimbTarget = 0
        /\ timeClimbing = 0
        /\ stuckTimer = 0
        /\ lastPlayerPosition = Zero3
        /\ coyoteTimeCounter = 0
        /\ jumpBufferCounter = 0
        /\ isMoving = FALSE
        /\ keys = {}
        /\ delta = 0
        /\ climbed = 0
        /\ presses = 0
        /\ ev = {}

\* one call of handleCollisions, on a state it has not yet resolved
Resolve ==
    /\ delta = 0
    /\ Install(handleCollisions(Cur, {}, StableFrameTime))
    /\ delta' = StableFrameTime
    /\ UNCHANGED << keys, presses >>

NextCollide == Resolve

SpecCollide == InitCollide /\ [][NextCollide]_vars

\* the character is horizontally within radius r of the centre of structure b
Within(b, r) == HDist2(position, meshPos(b)) < Sq(r)

\* C8: for every structure, an unattached airborne character directly above its centre,
\* inside its landing height band, not moving upward and with the exit cooldown elapsed,
\* is attached to it by the collision resolution, at its landing height, with its
\* vertical velocity zeroed and onGround set.
LandsOnStructureBelow ==
    [][ \A b \in BIdx :
          ( /\ ~isOnBuilding /\ ~playerOnGround
            /\ HDist2(position, meshPos(b)) = 0
            /\ position.y > height(b) - W(1) /\ position.y < height(b) + W(5)
            /\ playerVelocity.y <= 0
            /\ buildingExitTimer <= 0 ) =>
          ( /\ isOnBuilding' /\ currentBuildingHeight' = height(b)
            /\ playerVelocity'.y = 0
            /\ playerOnGround'
            /\ position'.y = height(b) + Wt(15) ) ]_vars

\* C9: a character attached to a structure, within the generous radius of it and not
\* moving upward when the collision resolution starts, is still attached to it
\* afterwards and pinned to its landing height; outside that radius or moving upward,
\* the attachment is released.
AttachmentKeptWithinRadiusElseReleased ==
    [][ \A b \in BIdx :
          (isOnBuilding /\ currentBuildingHeight = height(b)
              /\ HDist2(position, meshPos(b)) <= Sq(W(6))) =>
             IF Within(b, W(5)) /\ playerVelocity.y <= 0
             THEN /\ isOnBuilding' /\ currentBuildingHeight' = height(b)
                  /\ position'.y = height(b) + Wt(15)
             ELSE ~isOnBuilding' ]_vars

---------------------------------------------------------------------------
(* The collision resolver applied to a character moving horizontally over a roof. *)

\* horizontal speeds along x the character approaches or leaves a roof centre with
ApproachSpeeds == { -W(5), W(5) }

\* points in the air between the roofs of the two buildings that stand closest together,
\* (-45, 30) of height 19 and (-42, 42) of height 20
BetweenRoofs == { Vec(-Wt(406), Wt(165), Wt(353)) }

InitApproach ==
    \E b \in BIdx, dx \in RoofOffsets, dy \in RoofLevels, vx \in ApproachSpeeds,
       vy \in VerticalSpeeds, attached \in BOOLEAN, exit \in {0, 500}, grace \in {0, 3000} :
        /\ position \in {Vec(meshPos(b).x + dx, height(b) + dy, meshPos(b).z)}
                        \cup (IF attached THEN {} ELSE BetweenRoofs)
        /\ playerVelocity = Vec(vx, vy, 0)
        /\ playerOnGround = attached
        /\ isOnBuilding = attached
        /\ currentBuildingHeight = IF attached THEN height(b) ELSE 0
        /\ buildingExitTimer = exit
        /\ postClimbingGracePeriod = grace
        /\ nearLadder = FALSE
        /\ currentLadder = 0
        /\ isClimbingLadder = FALSE
        /\ ladderClimbTarget = 0
        /\ timeClimbing = 0
        /\ stuckTimer = 0
        /\ lastPlayerPosition = Zero3
        /\ coyoteTimeCounter = 0
        /\ jumpBufferCounter = 0
        /\ isMoving = TRUE
        /\ keys = {}
        /\ delta = 0
        /\ climbed = 0
        /\ presses = 0
        /\ ev = {}

SpecApproach == InitApproach /\ [][NextCollide]_vars

\* C11: whenever the collision resolution snaps the character onto a structure, by a new
\* landing or by a structure-to-structure jump, its vertical velocity before the snap was
\* not positive and the exit cooldown, counted down for the frame, had elapsed.
SnapsOnlyWhenFallingAndCooledDown ==
    [][ (ev' \cap {"land", "jumpland"} # {}) =>
          /\ playerVelocity.y <= 0
          /\ (IF buildingExitTimer > 0 THEN buildingExitTimer - delta'
                                       ELSE buildingExitTimer) <= 0 ]_vars

\* the state the passes over the buildings start from in a resolution with frame time dt
Ticked(dt) ==
    [Cur EXCEPT !.postClimbingGracePeriod = IF @ > 0 THEN Dec(@, dt) ELSE @,
                !.buildingExitTimer = IF @ > 0 THEN Dec(@, dt) ELSE @]

\* the landing condition of structure b holds when the resolution starts
LandingHolds(b) ==
    \/ "land" \in collideBuilding(<< Ticked(delta'), FALSE >>, b, {})[1].ev
    \/ "jumpland" \in jumpToBuilding(Ticked(delta'), b).ev

\* C12: in one frame the collision resolution lands the character on at most one
\* structure, the first in registry order whose landing condition holds; no later
\* structure changes position.y or the attachment.
LandsOnFirstStructureOnly ==
    [][ (ev' \cap {"land", "jumpland"} # {}) =>
          /\ "second" \notin ev'
          /\ \E b \in BIdx :
                /\ LandingHolds(b)
                /\ \A c \in 1 .. (b - 1) : ~LandingHolds(c)
                /\ position'.y = height(b) + Wt(15)
                /\ isOnBuilding' => currentBuildingHeight' = height(b) ]_vars

\* a landing on the first of two structures whose landing conditions both held
LandedWithTwoStructuresInReach ==
    /\ "jumpland" \in ev /\ position.y = height(4) + Wt(15)
    /\ isOnBuilding /\ currentBuildingHeight = height(4)
    /\ HDist2(position, meshPos(4)) < Sq(W(8)) /\ HDist2(position, meshPos(6)) < Sq(W(8))

\* C13: at the end of every frame onGround implies that the character is vertically
\* supported: unattached at ground level, or attached to a structure and at its top.
GroundedMeansSupported ==
    playerOnGround =>
        \/ ~isOnBuilding /\ position.y = W(1)
        \/ isOnBuilding /\ position.y = currentBuildingHeight + Wt(15)

---------------------------------------------------------------------------
(* The physics integrator on its own: the part of updatePlayerPhysics that precedes *)
(* the collision resolution, applied to the states a frame can start in.            *)

\* frame times the integrator is tried at, in ms
PhysicsFrameTimes == { 1, 16, 125, 500, 3000 }

\* vertical velocities a frame can start with: between the terminal fall speed and the
\* jump speed
StartVerticalSpeeds == { -W(20), -W(5), 0, W(5), W(12) }

\* values of the coyote and jump-buffer counters a frame can start with; the coyote
\* counter is positive only at the end of a grounded frame
StartCounters == { TimerFloor, 0, 50, 100 }

InitPhysics ==
    \E b \in {1, 7}, place \in {"ground", "roof", "air"}, vy \in StartVerticalSpeeds,
       grounded \in BOOLEAN, coyote \in StartCounters, buffer \in StartCounters :
        /\ position = CASE place = "ground" -> Vec(0, W(1), 0)
                         [] place = "roof" -> Vec(meshPos(b).x + Wt(18), height(b) + Wt(15),
                                                  meshPos(b).z)
                         [] place = "air" -> Vec(0, W(5), 0)
        /\ playerVelocity = Vec(0, IF place = "air" THEN vy ELSE 0, 0)
        /\ playerOnGround = (grounded \/ place = "ground")
        /\ isOnBuilding = (place = "roof")
        /\ currentBuildingHeight = IF place = "roof" THEN height(b) ELSE 0
        /\ buildingExitTimer = 0
        /\ postClimbingGracePeriod = 0
        /\ nearLadder = FALSE
        /\ currentLadder = 0
        /\ isClimbingLadder = FALSE
        /\ ladderClimbTarget = 0
        /\ timeClimbing = 0
        /\ stuckTimer = 0
        /\ lastPlayerPosition = Zero3
        /\ coyoteTimeCounter = coyote
        /\ coyote > 0 => playerOnGround
        /\ jumpBufferCounter = buffer
        /\ isMoving = FALSE
        /\ keys = {}
        /\ delta = 0
        /\ climbed = 0
        /\ presses = 0
        /\ ev = {}

\* updatePlayerPhysics up to its call of handleCollisions, on a state it has not yet acted on
Integrate ==
    \E k \in { {}, {"jump"} }, dt \in PhysicsFrameTimes :
        /\ delta = 0
        /\ Install(integrate(Cur, k, dt))
        /\ keys' = k
        /\ delta' = dt
        /\ UNCHANGED presses

NextPhysics == Integrate

SpecPhysics == InitPhysics /\ [][NextPhysics]_vars

\* C14: a frame that applies a jump consumes the buffer, zeroes the coyote window, sets
\* the vertical velocity to the jump speed (12, before the frame's gravity) and clears
\* the grounded state and the attachment.
JumpClearsGroundedAndAttachment ==
    [][ "jump" \in ev' =>
          /\ jumpBufferCounter' <= 0
          /\ coyoteTimeCounter' <= 0
          /\ playerVelocity'.y = Max(W(12) - Rnd(W(25) * delta', 1000), -W(20))
          /\ ~playerOnGround'
          /\ ~isOnBuilding' ]_vars

---------------------------------------------------------------------------
(* The collision resolver applied at the border of the map. *)

\* horizontal coordinates at and beyond the border: where one step of the integrator or
\* a ladder beyond the border (x + 15.5 for the buildings at x = 90) leaves the character
BorderCoordinates == { -W(99), 0, W(97), Wt(985), Wt(1055) }

InitBorder ==
    \E x \in BorderCoordinates, z \in BorderCoordinates, y \in {W(1), W(5), Wt(145)},
       vx \in {-W(8), 0, W(8)}, vy \in VerticalSpeeds :
        /\ position = Vec(x, y, z)
        /\ playerVelocity = Vec(vx, vy, 0)
        /\ playerOnGround = (y = W(1))
        /\ isOnBuilding = FALSE
        /\ currentBuildingHeight = 0
        /\ buildingExitTimer = 0
        /\ postClimbingGracePeriod = 0
        /\ nearLadder = FALSE
        /\ currentLadder = 0
        /\ isClimbingLadder = FALSE
        /\ ladderClimbTarget = 0
        /\ timeClimbing = 0
        /\ stuckTimer = 0
        /\ lastPlayerPosition = Zero3
        /\ coyoteTimeCounter = 0
        /\ jumpBufferCounter = 0
        /\ isMoving = (vx # 0)
        /\ keys = {}
        /\ delta = 0
        /\ climbed = 0
        /\ presses = 0
        /\ ev = {}

SpecBorder == InitBorder /\ [][NextCollide]_vars

\* C15: after the collision resolution of a non-climbing frame, whatever the position and
\* the velocity before it, |position.x| <= mapBounds and |position.z| <= mapBounds.
ResolutionKeepsCharacterInBounds ==
    [][ ~isClimbingLadder =>
          /\ Abs(position'.x) <= mapBounds
          /\ Abs(position'.z) <= mapBounds ]_vars

\* a resolution that has brought the character back from beyond two borders
ClampedAtCorner ==
    delta # 0 /\ position.x = -mapBounds /\ position.z = mapBounds

\* C16: for every frame time and every state the frame starts in, the vertical velocity
\* after the gravity of a physics frame is within the terminal speed: -20 <= velocity.y
\* <= 20.
VerticalSpeedWithinTerminal ==
    [][ "physics" \in ev' =>
          /\ playerVelocity'.y >= -W(20)
          /\ playerVelocity'.y <= W(20) ]_vars

\* a frame long enough for gravity to take a jump beyond the terminal speed
JumpClampedToTerminalSpeed ==
    {"jump", "physics"} \subseteq ev /\ delta = 3000 /\ playerVelocity.y = -W(20)

---------------------------------------------------------------------------
(* The frame loop at a display's frame rate, for the timing windows of the jump. *)

\* the frame time, in ms: 25 frames a second
FineFrameTime == 40

\* the history of a frame records whether it has cleared or set onGround
noteGround(was, s) ==
    [s EXCEPT !.ev = @ \cup (IF was /\ ~s.playerOnGround THEN {"liftoff"} ELSE {})
                       \cup (IF ~was /\ s.playerOnGround THEN {"touchdown"} ELSE {})]

\* one call of animate() with the jump key held or not
FineFrame ==
    \E k \in { {}, {"jump"} }, rnd \in Randoms :
        /\ presses + Pressed(k) <= MaxPresses
        /\ presses' = presses + Pressed(k)
        /\ Install(noteGround(playerOnGround, animate(Cur, k, FineFrameTime, rnd)))
        /\ keys' = k
        /\ delta' = FineFrameTime

NextFine == FineFrame

\* the state after construction: the character at the spawn point
InitFine == Init /\ position = Vec(0, W(1), 0)

SpecFine == InitFine /\ [][NextFine]_vars

JumpBufferedBeforeLanding ==
    [][ ( /\ "touchdown" \in ev /\ keys = {} /\ keys' = {}
          /\ jumpBufferCounter \in { jumpBufferTime - 2 * FineFrameTime,
                                      jumpBufferTime - 3 * FineFrameTime } ) =>
            "jump" \in ev' ]_vars

---------------------------------------------------------------------------
(* The frame loop with no key held, from a character placed under the ground *)

\* frame times of the idle run: the longest stable frame and a slow frame
IdleFrameTimes == { 125, 500 }

\* vertical velocities the placed character has
SunkVerticalSpeeds == { -W(5), 0, W(5) }

\* The character at y = -5, not climbing: unattached, or flagged as attached to building b
\* while under its footprint or while at the spawn point, far from it.
InitSunk ==
    \E b \in {1, 2}, attached \in BOOLEAN, under \in BOOLEAN, vy \in SunkVerticalSpeeds,
       grounded \in BOOLEAN :
        /\ position = IF under THEN Vec(meshPos(b).x + Wt(18), -W(5), meshPos(b).z)
                                ELSE Vec(0, -W(5), 0)
        /\ playerVelocity = Vec(0, vy, 0)
        /\ playerOnGround = grounded
        /\ isOnBuilding = attached
        /\ currentBuildingHeight = IF attached THEN height(b) ELSE 0
        /\ buildingExitTimer = 0
        /\ postClimbingGracePeriod = 0
        /\ nearLadder = FALSE
        /\ currentLadder = 0
        /\ isClimbingLadder = FALSE
        /\ ladderClimbTarget = 0
        /\ timeClimbing = 0
        /\ stuckTimer = 0
        /\ lastPlayerPosition = position
        /\ coyoteTimeCounter = 0
        /\ jumpBufferCounter = 0
        /\ isMoving = FALSE
        /\ keys = {}
        /\ delta = 0
        /\ climbed = 0
        /\ presses = 0
        /\ ev = {}

\* one call of animate() with no key held
IdleFrame == FrameOf({ {} }, IdleFrameTimes)

NextSunk == IdleFrame

SpecSunk == InitSunk /\ [][NextSunk]_vars

\* C19: a character placed at y = -5 outside a climb, attached or not, and left with no
\* input is at y >= 0 with onGround set once the monitor's patience has run out: it is
\* so from the end of the first frame on.
SunkCharacterIsBackOnGround ==
    delta # 0 => position.y >= 0 /\ playerOnGround

\* the monitor's patience has run out on the recovered character and it has relocated it
SunkCharacterOutlastsPatience ==
    "auto" \in ev /\ position.y >= 0 /\ playerOnGround

---------------------------------------------------------------------------
(* The stuck monitor on a character that stays where it is, with no key held *)

\* heights of the character relative to the landing height of its building
RoofDistances == { -W(8), -W(3), 0, W(3), W(8) }

InitMonitor ==
    \E b \in {1, 2, 3}, dy \in RoofDistances, attached \in BOOLEAN, grace \in {0, 3000} :
        /\ position = Vec(meshPos(b).x + Wt(18), height(b) + Wt(15) + dy, meshPos(b).z)
        /\ playerVelocity = Zero3
        /\ playerOnGround = TRUE
        /\ isOnBuilding = attached
        /\ currentBuildingHeight = IF attached THEN height(b) ELSE 0
        /\ buildingExitTimer = 0
        /\ postClimbingGracePeriod = grace
        /\ nearLadder = FALSE
        /\ currentLadder = 0
        /\ isClimbingLadder = FALSE
        /\ ladderClimbTarget = 0
        /\ timeClimbing = 0
        /\ stuckTimer = 0
        /\ lastPlayerPosition = position
        /\ coyoteTimeCounter = 0
        /\ jumpBufferCounter = 0
        /\ isMoving = FALSE
        /\ keys = {}
        /\ delta = 0
        /\ climbed = 0
        /\ presses = 0
        /\ ev = {}

\* one call of checkForStuckPlayer from animate(), with no key held
Monitor ==
    \E dt \in IdleFrameTimes, rnd \in Randoms :
        /\ Install(checkForStuckPlayer(Cur, {}, dt, rnd))
        /\ keys' = {}
        /\ delta' = dt
        /\ UNCHANGED presses

NextMonitor == Monitor

\* the monitor is called in every frame
SpecMonitor == InitMonitor /\ [][NextMonitor]_vars /\ WF_vars(Monitor)

\* attached to a structure, more than the tolerance away from its landing height, outside
\* the grace period
AttachedFarFromLandingHeight ==
    /\ isOnBuilding /\ currentBuildingHeight > 0
    /\ Abs(position.y - (currentBuildingHeight + Wt(15))) > W(5)
    /\ postClimbingGracePeriod = 0

---------------------------------------------------------------------------
(* autoUnstuck on the positions the monitor hands to it *)

\* the values Math.random() takes in autoUnstuck, in 1/1000
RecoveryDraws == { [off |-> 0, u1 |-> 0, u2 |-> 999], [off |-> 0, u1 |-> 500, u2 |-> 500],
                   [off |-> 0, u1 |-> 999, u2 |-> 0] }

\* positions autoUnstuck is called at: over the roof of the building at (90, -40), under
\* the ground inside its footprint, at rest on open ground, in the air, outside the map
\* bounds on the ground and in the air, and between the buildings at (-45, 30) and
\* (-42, 42), in the range and the height band of both
RecoveryPositions ==
    { Vec(meshPos(9).x + Wt(18), height(9) + Wt(15), meshPos(9).z),
      Vec(-Wt(437), Wt(171), Wt(357)),
      Vec(meshPos(9).x + W(2), -W(1), meshPos(9).z),
      Vec(0, W(1), 0),
      Vec(W(50), W(15), W(50)),
      Vec(W(105), W(1), 0),
      Vec(-W(99), W(15), Wt(1055)) }

RecoveryVelocities == { Zero3, Vec(W(3), -W(5), 0), Vec(0, -W(20), 0) }

InitRecover ==
    \E p \in RecoveryPositions, v \in RecoveryVelocities, attached \in BOOLEAN,
       grounded \in BOOLEAN, grace \in {TimerFloor, 0} :
        /\ position = p
        /\ playerVelocity = v
        /\ playerOnGround = grounded
        /\ isOnBuilding = attached
        /\ currentBuildingHeight = IF attached THEN height(9) ELSE 0
        /\ buildingExitTimer = 0
        /\ postClimbingGracePeriod = grace
        /\ nearLadder = FALSE
        /\ currentLadder = 0
        /\ isClimbingLadder = FALSE
        /\ ladderClimbTarget = 0
        /\ timeClimbing = 0
        /\ stuckTimer = maxStuckTime
        /\ lastPlayerPosition = p
        /\ coyoteTimeCounter = 0
        /\ jumpBufferCounter = 0
        /\ isMoving = FALSE
        /\ keys = {}
        /\ delta = 0
        /\ climbed = 0
        /\ presses = 0
        /\ ev = {}

\* one call of autoUnstuck, on a state it has not yet acted on
Recover ==
    \E rnd \in RecoveryDraws :
        /\ "auto" \notin ev
        /\ Install(autoUnstuck(Cur, rnd))
        /\ UNCHANGED << keys, delta, presses >>

NextRecover == Recover

SpecRecover == InitRecover /\ [][NextRecover]_vars

\* C21: right after autoUnstuck the velocity is zero, onGround is set, x and z are within
\* the map bounds, y is the ground level or the landing height of a structure, and the
\* grace period is running.
AutoRecoveryLeavesSafeState ==
    "auto" \in ev =>
        /\ playerVelocity = Zero3
        /\ playerOnGround
        /\ Abs(position.x) <= mapBounds /\ Abs(position.z) <= mapBounds
        /\ position.y = W(1) \/ \E b \in BIdx : position.y = height(b) + Wt(15)
        /\ postClimbingGracePeriod > 0

\* autoUnstuck has put the character on the roof it was over
RecoveredOntoRoof ==
    /\ "auto" \in ev /\ position.y = height(9) + Wt(15) /\ isOnBuilding
    /\ currentBuildingHeight = height(9)

---------------------------------------------------------------------------
(* The grace period and the stuck monitor in the frame loop *)

---------------------------------------------------------------------------
(* manualUnstuck on the positions autoUnstuck is checked on *)

\* one keydown of R outside a frame's physics: handleInput runs manualUnstuck
ManualTrigger ==
    \E rnd \in RecoveryDraws :
        /\ keys = {}
        /\ Install(handleInput(Cur, {"r"}, rnd))
        /\ keys' = {"r"}
        /\ presses' = presses + 1
        /\ UNCHANGED delta

NextManual == ManualTrigger

SpecManual == InitRecover /\ [][NextManual]_vars

\* the state autoUnstuck leaves for some random draw, as far as manual recovery is
\* to agree with it
AsAutomatic(a) ==
    /\ position' = a.position
    /\ playerVelocity' = Zero3
    /\ playerOnGround'
    /\ isOnBuilding' = a.isOnBuilding
    /\ currentBuildingHeight' = a.currentBuildingHeight
    /\ postClimbingGracePeriod' > 0

\* C23: outside a climb, the manual trigger relocates exactly when
\* isPlayerInProblematicPosition holds, and then leaves the state autoUnstuck would
\* leave: the same position for some random draw, zero velocity, onGround set, the same
\* attachment, and a grace period running.
ManualRecoveryMatchesAutomatic ==
    [][ (keys = {} /\ keys' = {"r"} /\ ~isClimbingLadder) =>
          /\ ("manual" \in ev') = isPlayerInProblematicPosition(Here, position)
          /\ "manual" \in ev' =>
                 \E rnd \in RecoveryDraws : AsAutomatic(autoUnstuck(Cur, rnd)) ]_vars

---------------------------------------------------------------------------
(* restart() *)

\* C24: after restart(), whatever the state it was called in, the character is at
\* (0, 1, 0) with zero velocity and onGround set, unattached, with no climb and no
\* ladder in reach, and the coyote, jump-buffer, exit, stuck and grace timers are 0.
RestartResetsCharacter ==
    "restart" \in ev =>
        /\ position = Vec(0, W(1), 0) /\ playerVelocity = Zero3 /\ playerOnGround
        /\ ~isOnBuilding /\ currentBuildingHeight = 0
        /\ ~isClimbingLadder /\ currentLadder = 0 /\ ladderClimbTarget = 0 /\ ~nearLadder
        /\ coyoteTimeCounter = 0 /\ jumpBufferCounter = 0 /\ buildingExitTimer = 0
        /\ stuckTimer = 0 /\ postClimbingGracePeriod = 0

\* restart() called after a climb was started and relocated the character
RestartedAfterClimb ==
    "restart" \in ev /\ climbed # 0 /\ position = Vec(0, W(1), 0) /\ ~isClimbingLadder

---------------------------------------------------------------------------
(* The frame loop with the character walking on the ground towards a building *)

\* where the walk starts: on the ground east of the second building of the registry,
\* outside its walls, on its axis and beside it
WalkStarts == { Vec(meshPos(8).x + W(16), W(1), meshPos(8).z),
                Vec(meshPos(8).x + W(16), W(1), meshPos(8).z + W(1)) }

InitWalk ==
    /\ position \in WalkStarts
    /\ playerVelocity = Zero3
    /\ playerOnGround = TRUE
    /\ isOnBuilding = FALSE
    /\ currentBuildingHeight = 0
    /\ buildingExitTimer = 0
    /\ nearLadder = FALSE
    /\ currentLadder = 0
    /\ isClimbingLadder = FALSE
    /\ ladderClimbTarget = 0
    /\ timeClimbing = 0
    /\ stuckTimer = 0
    /\ postClimbingGracePeriod = 0
    /\ lastPlayerPosition = Zero3
    /\ coyoteTimeCounter = 0
    /\ jumpBufferCounter = 0
    /\ isMoving = FALSE
    /\ keys = {}
    /\ delta = 0
    /\ climbed = 0
    /\ presses = 0
    /\ ev = {}

\* one call of animate() with the key for a move to the west held or not
WalkFrame == FrameOf({ {}, {"left"} }, {StableFrameTime})

NextWalk == WalkFrame

SpecWalk == InitWalk /\ [][NextWalk]_vars

\* within the walls of building b near its axis, under the height band of its roof
InsideBelowRoof(b) ==
    HDist2(position, meshPos(b)) < Sq(W(2)) /\ position.y <= height(b) - W(1)

\* C25: at the end of a frame outside a climb the character is not inside a structure
\* under its landing band: the side collision has pushed it out to the boundary.
SideCollisionKeepsCharacterOutside ==
    (delta # 0 /\ ~isClimbingLadder) => \A b \in BIdx : ~InsideBelowRoof(b)

---------------------------------------------------------------------------
(* The frame loop with the climb key held, from the foot of each ladder *)

\* fixed frame times of a climb
ClimbFrameTimes == { 125, 250, 500 }

\* the climbable buildings of the registry
Climbables == { b \in BIdx : climbable(b) }

\* on the ground at the foot of a ladder, or as near to it as the map bounds allow
LadderFeet == { Vec(Clamp(ladderPos(b).x), W(1), Clamp(ladderPos(b).z)) : b \in Climbables }

InitClimb ==
    /\ position \in LadderFeet
    /\ playerVelocity = Zero3
    /\ playerOnGround = TRUE
    /\ isOnBuilding = FALSE
    /\ currentBuildingHeight = 0
    /\ buildingExitTimer = 0
    /\ nearLadder = FALSE
    /\ currentLadder = 0
    /\ isClimbingLadder = FALSE
    /\ ladderClimbTarget = 0
    /\ timeClimbing = 0
    /\ stuckTimer = 0
    /\ postClimbingGracePeriod = 0
    /\ lastPlayerPosition = Zero3
    /\ coyoteTimeCounter = 0
    /\ jumpBufferCounter = 0
    /\ isMoving = FALSE
    /\ keys = {}
    /\ delta = 0
    /\ climbed = 0
    /\ presses = 0
    /\ ev = {}

\* one call of animate() with the climb key held, every frame of a run as long as the first
ClimbFrame ==
    \E dt \in ClimbFrameTimes :
        /\ delta \in {0, dt}
        /\ FrameOf({ {"jump"} }, {dt})

NextClimb == ClimbFrame

SpecClimb == InitClimb /\ [][NextClimb]_vars

\* the time, in ms, a climb at ladderClimbSpeed takes over the height h
ClimbTime(h) == Rnd(h * 1000, ladderClimbSpeed)

\* the time since the climb was started, at the end of the frame being taken
Elapsed == timeClimbing + delta'

\* C26 as stated: a climb of a structure of height H with the key held completes
\* (H + 1.5) / 6 seconds after its start, give or take one frame.
ClimbTakesTargetHeightOverRate ==
    [][ (isClimbingLadder /\ "finish" \in ev') =>
            Abs(Elapsed - ClimbTime(height(climbed) + Wt(15))) <= delta' ]_vars

\* C26 amended: a climb entered from the ground starts at y = 1 or, with the jump of the
\* entry frame, up to two frames of climbing higher, and completes (H + 1.5 - 1) / 6
\* seconds after its start, give or take two frames.
ClimbTakesHeightAboveStartOverRate ==
    [][ (isClimbingLadder /\ "finish" \in ev') =>
            Abs(Elapsed - ClimbTime(height(climbed) + Wt(15) - W(1))) <= 2 * delta' ]_vars

\* the climb of the highest building of the table has completed at the shortest frame time
HighestClimbCompleted ==
    "finish" \in ev /\ climbed = 1 /\ delta = 125 /\ keys = {"jump"} /\ ~isClimbingLadder

---------------------------------------------------------------------------
(* The frame loop with a move intent held, from the spawn point *)

\* fixed frame times that divide a second, up to the longest stable one
SecondFrameTimes == { 8, 10, 20, 25, 40, 50, 100, 125 }

\* The character at rest on the ground at the origin, where autoUnstuck puts it on open
\* ground, with one second of the grace period left: the grace period runs out at the
\* end of the frame that completes the second.
InitSecond ==
    /\ position = Vec(0, W(1), 0)
    /\ playerVelocity = Zero3
    /\ playerOnGround = TRUE
    /\ isOnBuilding = FALSE
    /\ currentBuildingHeight = 0
    /\ buildingExitTimer = 0
    /\ nearLadder = FALSE
    /\ currentLadder = 0
    /\ isClimbingLadder = FALSE
    /\ ladderClimbTarget = 0
    /\ timeClimbing = 0
    /\ stuckTimer = 0
    /\ postClimbingGracePeriod = 1000
    /\ lastPlayerPosition = position
    /\ coyoteTimeCounter = 0
    /\ jumpBufferCounter = 0
    /\ isMoving = FALSE
    /\ keys = {}
    /\ delta = 0
    /\ climbed = 0
    /\ presses = 0
    /\ ev = {}

\* one call of animate() with the key for the move (1, 0) held, every frame of a run as
\* long as the first
WalkFrameEast ==
    \E dt \in SecondFrameTimes :
        /\ delta \in {0, dt}
        /\ FrameOf({ {"right"} }, {dt})

NextSecond == WalkFrameEast

SpecSecond == InitSecond /\ [][NextSecond]_vars

\* C27: a grounded character at rest at the origin that receives the move intent (1, 0)
\* for one second of frames has moved by more than 0 and by less than 8 units at the
\* end of the second.
SecondOfWalkStaysUnderBaseSpeed ==
    [][ (postClimbingGracePeriod > 0 /\ postClimbingGracePeriod' = 0) =>
            /\ HDist2(position', Zero3) > 0
            /\ HDist2(position', Zero3) < Sq(W(8)) ]_vars

---------------------------------------------------------------------------
(* Entry into a climb *)

\* C28: a frame that begins outside a climb starts one only if the character began the
\* frame within the detection range of the ladder and grounded or attached; an airborne
\* character does not start a climb.
ClimbStartsOnlyFromSupport ==
    [][ (~isClimbingLadder /\ "start" \in ev') =>
            /\ Dist2(position, ladderPos(climbed')) < Sq(W(12))
            /\ playerOnGround \/ isOnBuilding ]_vars

\* C29: at the end of every frame that leaves a climb under way, the entry frame
\* included, the character's x and z are those of the ladder being climbed.
ClimberStaysOnLadder ==
    (isClimbingLadder /\ climbed # 0) =>
        position.x = ladderPos(climbed).x /\ position.z = ladderPos(climbed).z

---------------------------------------------------------------------------
(* The ladder in reach *)

\* C30: at the end of a frame outside a climb, a ladder is held as the one in reach only
\* if the character is within the detection range of it, on the ground, in the air or
\* attached to a building.
LadderInReachIsNear ==
    (delta # 0 /\ ~isClimbingLadder /\ nearLadder /\ currentLadder # 0) =>
        Dist2(position, ladderPos(currentLadder)) < Sq(W(12))

---------------------------------------------------------------------------
(* The frame loop at the lowest climbable building inside the map *)

\* the frame time of a display at 125 Hz, and the longest stable frame time
LowFrameTimes == { 8, 125 }

\* the building at (40, -90), of height 10: the only one inside the map whose climb target
\* lies within the detection range of its ladder
LowBuilding == CHOOSE b \in BIdx : buildingPositions[b].x = 40 /\ buildingPositions[b].z = -90

InitLow ==
    /\ position = Vec(ladderPos(LowBuilding).x, W(1), ladderPos(LowBuilding).z)
    /\ playerVelocity = Zero3
    /\ playerOnGround = TRUE
    /\ isOnBuilding = FALSE
    /\ currentBuildingHeight = 0
    /\ buildingExitTimer = 0
    /\ nearLadder = FALSE
    /\ currentLadder = 0
    /\ isClimbingLadder = FALSE
    /\ ladderClimbTarget = 0
    /\ timeClimbing = 0
    /\ stuckTimer = 0
    /\ postClimbingGracePeriod = 0
    /\ lastPlayerPosition = Zero3
    /\ coyoteTimeCounter = 0
    /\ jumpBufferCounter = 0
    /\ isMoving = FALSE
    /\ keys = {}
    /\ delta = 0
    /\ climbed = 0
    /\ presses = 0
    /\ ev = {}

\* one call of animate() with the climb key held, outside a climb at the short frame time;
\* the R key is pressed during a climb only
LowFrame ==
    \/ ~isClimbingLadder /\ FrameOf({ {"jump"} }, {8})
    \/ isClimbingLadder /\ FrameOf({ {"jump"}, {"jump", "r"} }, LowFrameTimes)

NextLow == LowFrame

SpecLow == InitLow /\ [][NextLow]_vars

\* C31: at the end of every frame that has created a climb session on a structure, the
\* character is not above the target height of that climb, the height of the structure
\* plus the landing offset.
ClimbStartsAtOrBelowTarget ==
    ("start" \in ev /\ isClimbingLadder) => position.y <= height(climbed) + Wt(15)

---------------------------------------------------------------------------
(* The search of the climbed structure at completion *)

---------------------------------------------------------------------------
(* Validity of the climb session *)

\* C33: whenever a climb session is active between two frames, a current ladder is
\* recorded and the climb target is positive, and no frame has taken the branch of
\* animate() for an invalid climb state, the one that returns without scheduling the
\* next frame.
ClimbSessionIsValid ==
    /\ isClimbingLadder => currentLadder # 0 /\ ladderClimbTarget > 0
    /\ "invalid" \notin ev

\* a frame has gone on with a climb whose session was valid when the frame began
ClimbContinuedWithValidSession ==
    /\ "climb" \in ev /\ isClimbingLadder
    /\ currentLadder = climbed /\ ladderClimbTarget = height(climbed) + Wt(15)

---------------------------------------------------------------------------
(* The jump with the key held *)

\* C34: a character that a frame has left in the air, still rising from the jump that
\* frame applied, is not given the jump speed again by the next frame: with the jump key
\* held the jump is applied once until the character has landed.
HeldJumpFiresOncePerLanding ==
    [][ ("jump" \in ev /\ ~playerOnGround /\ playerVelocity.y > 0 /\ "r" \notin keys') =>
            "jump" \notin ev' ]_vars

---------------------------------------------------------------------------
(* The play area *)

\* C35: at the end of every frame, of whatever kind, the character's horizontal position
\* is inside the play area: |position.x| <= mapBounds and |position.z| <= mapBounds.
CharacterStaysInPlayArea ==
    delta # 0 => Abs(position.x) <= mapBounds /\ Abs(position.z) <= mapBounds

---------------------------------------------------------------------------
(* The attachment as a height *)

\* the character is over the base of building b, a box 30 units wide
StandsOn(b) ==
    /\ Abs(position.x - meshPos(b).x) <= W(15)
    /\ Abs(position.z - meshPos(b).z) <= W(15)

\* C36: at the end of a frame that has attached the character to a structure, by a landing
\* or by the completion of a climb, the structure that the lookup by the attached height
\* returns is the one the character stands on.
AttachmentLookupFindsStructureStoodOn ==
    (isOnBuilding /\ ev \cap {"finish", "land", "jumpland"} # {}) =>
        LET b == findByHeight(currentBuildingHeight, 1) IN b # 0 /\ StandsOn(b)

\* C37: in every reachable state the two attachment fields agree: isOnBuilding is set
\* exactly when currentBuildingHeight is positive, and the height of an attached
\* character is the height of a building of the registry.
AttachmentFieldsAgree ==
    /\ isOnBuilding <=> currentBuildingHeight > 0
    /\ isOnBuilding => \E b \in BIdx : height(b) = currentBuildingHeight

\* the exit detection has released an attachment
AttachmentReleasedByExitDetection ==
    "left" \in ev /\ ~isOnBuilding /\ currentBuildingHeight = 0

---------------------------------------------------------------------------
(* The attachment autoUnstuck records *)

\* C38: right after autoUnstuck has put the character above the ground level, the
\* character is attached and stands at the landing height of the attached height: the
\* structure chosen for the safe position and the structure recorded have the same height.
AutoRecoveryAttachesToChosenRoof ==
    ("auto" \in ev /\ position.y > W(1)) =>
        isOnBuilding /\ position.y = currentBuildingHeight + Wt(15)

\* autoUnstuck has put the character on the later of two buildings it was in range of
RecoveredOntoLaterOfTwoRoofs ==
    /\ "auto" \in ev /\ isOnBuilding /\ position.y = height(6) + Wt(15)
    /\ Dist2(lastPlayerPosition, meshPos(4)) < Sq(W(10))
    /\ Dist2(lastPlayerPosition, meshPos(6)) < Sq(W(10))
    /\ Dist2(lastPlayerPosition, meshPos(4)) < Dist2(lastPlayerPosition, meshPos(6))

=============================================================================
